---- MODULE Spec2Model ----
(***************************************************************************)
(* PAB 20/20 Vision Timer: the wall-clock phase engine, its driver loop,   *)
(* the alert emitter and the controls, modelled from src/app.js and from   *)
(* the flash version src/unnamed/part_000.                                 *)
(*                                                                         *)
(* The program is single threaded: every action below is one event handler *)
(* run to completion.  A handler is a function from a state record to a    *)
(* state record; an uncaught exception sets the field "thrown" and skips   *)
(* the rest of the handler, as it does in JavaScript.                      *)
(*                                                                         *)
(* start() and stop() are modelled as the functions they are: they can be  *)
(* called in every state, also when their button is shown disabled.        *)
(* The browser is the environment: it runs the scheduled callbacks, moves  *)
(* the clock, ends tones, suspends the audio context, and may make the     *)
(* audio calls of a handler throw.  navigator.vibrate changes no state of  *)
(* the page and is left out.                                               *)
(***************************************************************************)
EXTENDS Integers, Sequences, FiniteSets, TLC

\* ---- program constants ----
WORK_SEC == 20 * 60
REST_SEC == 20
BEEP_SEC == 3

\* the value of a variable that holds null
NULL == -1
\* startPhase's default for its second parameter (nextAfter = null)
NoHint == "null"

\* ---- bounds of the model ----
\* the clock value at page load
T0 == 1000
\* iterations of the catch-up loop that are followed before the run is reported as hung
MaxLoop == 4
\* how far the clock runs: one full Work+Beep+Rest+Beep cycle and the start of the next Work
MaxClock == T0 + ((WORK_SEC + BEEP_SEC + REST_SEC + BEEP_SEC) * 1000) + 4000
\* pending stopFlash timeouts that are tracked
MaxFlashTimers == 1

\* the missed interval of the catch-up scenario: Work+Beep+Rest and 1.5 s into the next Beep
CatchUpGap == ((WORK_SEC + BEEP_SEC + REST_SEC) * 1000) + 1500
\* instants around the end of the running phase at which a callback may fire
Offsets == {0 - 1000, 0 - 1, 0}
\* milliseconds that pass between two consecutive clock reads of one handler
Ticks == {0, 1}

\* what one handler meets: whether the audio calls it makes succeed (audioOk;
\* when not, the AudioContext constructor and the oscillator calls throw), and
\* the milliseconds that pass between two of its reads of the clock (tick)
Envs == [audioOk : BOOLEAN, tick : Ticks]
\* start() and the Test Beep handler read the clock at most once
ClickEnvs == {env \in Envs : env.tick = 0}

VARIABLES
  running, phase, secondsLeft, nextAfterBeep, phaseEndAtMs,
  rafId, backgroundPollId, audioCtx, currentOsc, keepAliveTimer,
  flashActive,
  clock, rafPending, pollTimers, keepAliveTimers, flashTimers, flashReady, sounding,
  shownTime, shownPhase, startBtnDisabled, stopBtnDisabled,
  lastOp

progVars ==
  <<running, phase, secondsLeft, nextAfterBeep, phaseEndAtMs,
    rafId, backgroundPollId, audioCtx, currentOsc, keepAliveTimer, flashActive>>
browserVars ==
  <<clock, rafPending, pollTimers, keepAliveTimers, flashTimers, flashReady, sounding,
    shownTime, shownPhase, startBtnDisabled, stopBtnDisabled>>
vars == <<progVars, browserVars, lastOp>>

\* the current state as one record
Cur ==
  [running |-> running, phase |-> phase, secondsLeft |-> secondsLeft,
   nextAfterBeep |-> nextAfterBeep, phaseEndAtMs |-> phaseEndAtMs,
   rafId |-> rafId, backgroundPollId |-> backgroundPollId,
   audioCtx |-> audioCtx, currentOsc |-> currentOsc,
   keepAliveTimer |-> keepAliveTimer, flashActive |-> flashActive,
   clock |-> clock, rafPending |-> rafPending, pollTimers |-> pollTimers,
   keepAliveTimers |-> keepAliveTimers, flashTimers |-> flashTimers,
   flashReady |-> flashReady,
   sounding |-> sounding, shownTime |-> shownTime, shownPhase |-> shownPhase,
   startBtnDisabled |-> startBtnDisabled, stopBtnDisabled |-> stopBtnDisabled,
   thrown |-> FALSE, hung |-> FALSE]

\* ---- JavaScript and browser primitives ----
\* the truthiness of a number-or-null value: if (x) ...
Truthy(x) == x # NULL /\ x # 0

Max(a, b) == IF a >= b THEN a ELSE b

\* the element of a one-element set; Only({f(v) : v \in {e}}) is f(e) with e
\* evaluated once
Only(S) == CHOOSE x \in S : TRUE

\* an uncaught exception
Throw(s) == [s EXCEPT !.thrown = TRUE]

\* Date.now()
DateNow(s) == s.clock

\* time passing between two statements of a handler
Elapse(s, ms) == IF s.thrown THEN s ELSE [s EXCEPT !.clock = @ + ms]

\* a handle the browser hands out: the smallest positive one not in use
FreshId(used) == CHOOSE i \in 1..(Cardinality(used) + 1) : i \notin used

\* Math.floor in the place of Math.ceil
CeilSeconds_Floor(ms) == ms \div 1000

\* Math.ceil(ms / 1000) for ms >= 0
CeilSeconds(ms) == (ms + 999) \div 1000

\* ---- white flash overlay (flash version) ----
startFlash(s) == IF s.thrown THEN s ELSE [s EXCEPT !.flashActive = TRUE]
stopFlash(s) == IF s.thrown THEN s ELSE [s EXCEPT !.flashActive = FALSE]

\* ---- audio ----
ensureAudio(s, env) ==
  IF s.thrown THEN s
  ELSE IF s.audioCtx = "null" /\ ~env.audioOk THEN Throw(s)
  ELSE LET s1 == IF s.audioCtx = "null" THEN [s EXCEPT !.audioCtx = "suspended"] ELSE s
       IN IF s1.audioCtx = "suspended" THEN [s1 EXCEPT !.audioCtx = "running"] ELSE s1

stopAudioKeepAlive(s) ==
  IF s.thrown THEN s
  ELSE [s EXCEPT !.keepAliveTimers = IF Truthy(s.keepAliveTimer)
                                     THEN @ \ {s.keepAliveTimer} ELSE @,
                 !.keepAliveTimer = NULL]

startAudioKeepAlive(s) ==
  IF s.thrown THEN s
  ELSE LET s1 == stopAudioKeepAlive(s)
           id == FreshId(s1.keepAliveTimers)
       IN [s1 EXCEPT !.keepAliveTimers = @ \cup {id}, !.keepAliveTimer = id]

\* the body of the keep-alive interval
keepAliveBody(s) ==
  IF s.audioCtx = "null" THEN s
  ELSE IF s.audioCtx = "suspended" THEN [s EXCEPT !.audioCtx = "running"]
  ELSE s

stopTone(s) ==
  IF s.thrown THEN s
  ELSE [s EXCEPT !.sounding = {t \in @ : t.id # s.currentOsc},
                 !.currentOsc = NULL]

\* a playToneFor that does not stop the previous tone
playToneFor_NoStopTone(s, seconds, env) ==
  LET s1 == ensureAudio(s, env)
  IN IF s1.thrown THEN s1
     ELSE IF ~env.audioOk THEN Throw(s1)
     ELSE LET osc == FreshId({t.id : t \in s1.sounding})
          IN [s1 EXCEPT !.sounding = @ \cup {[id |-> osc, seconds |-> seconds]},
                        !.currentOsc = osc]

playToneFor(s, seconds, env) ==
  LET s1 == stopTone(ensureAudio(s, env))
  IN IF s1.thrown THEN s1
     ELSE IF ~env.audioOk THEN Throw(s1)
     ELSE LET osc == FreshId({t.id : t \in s1.sounding})
          IN [s1 EXCEPT !.sounding = @ \cup {[id |-> osc, seconds |-> seconds]},
                        !.currentOsc = osc]

\* ---- UI helpers ----
fmt(sec) == <<sec \div 60, sec % 60>>

render(s) ==
  IF s.thrown THEN s
  ELSE [s EXCEPT !.shownTime = fmt(s.secondsLeft),
                 !.shownPhase = IF s.phase \in {"ready", "work", "rest", "beep"}
                                THEN s.phase ELSE @]

setButtons(s) ==
  IF s.thrown THEN s
  ELSE [s EXCEPT !.startBtnDisabled = s.running, !.stopBtnDisabled = ~s.running]

durationSecondsFor(p) ==
  IF p = "work" THEN WORK_SEC
  ELSE IF p = "rest" THEN REST_SEC
  ELSE IF p = "beep" THEN BEEP_SEC
  ELSE WORK_SEC

\* ---- phase engine (wall clock) ----
startPhase(s, p, nextAfter, env) ==
  IF s.thrown THEN s
  ELSE LET s1 == [s EXCEPT !.phase = p]
           s2 == IF p = "beep"
                 THEN startFlash(playToneFor(
                        [s1 EXCEPT !.nextAfterBeep =
                                     IF nextAfter # NoHint THEN nextAfter ELSE "work"],
                        BEEP_SEC, env))
                 ELSE stopFlash(stopTone(s1))
           durSec == durationSecondsFor(p)
       IN IF s2.thrown THEN s2
          ELSE render([s2 EXCEPT !.phaseEndAtMs = DateNow(s2) + (durSec * 1000),
                                 !.secondsLeft = durSec])

\* a transition whose Beep after Rest is followed by Rest again
transition_RestAfterRest(s, env) ==
  IF s.phase = "work" THEN startPhase(s, "beep", "rest", env)
  ELSE IF s.phase = "rest" THEN startPhase(s, "beep", "rest", env)
  ELSE IF s.phase = "beep"
       THEN startPhase(stopFlash(stopTone(s)), s.nextAfterBeep, NoHint, env)
  ELSE startPhase(s, "work", NoHint, env)

\* one transition of the table, chosen by the current phase
transition(s, env) ==
  IF s.phase = "work" THEN startPhase(s, "beep", "rest", env)
  ELSE IF s.phase = "rest" THEN startPhase(s, "beep", "work", env)
  ELSE IF s.phase = "beep"
       THEN startPhase(stopFlash(stopTone(s)), s.nextAfterBeep, NoHint, env)
  ELSE startPhase(s, "work", NoHint, env)

RECURSIVE advanceLoop(_, _, _, _)
advanceLoop(s, nowMs, env, fuel) ==
  IF s.thrown THEN s
  ELSE IF ~(s.running /\ Truthy(s.phaseEndAtMs) /\ nowMs >= s.phaseEndAtMs) THEN s
  ELSE IF fuel = 0 THEN [s EXCEPT !.hung = TRUE]
  ELSE Only({advanceLoop(s2, DateNow(s2), env, fuel - 1) :
               s2 \in {Elapse(transition(Elapse(s, env.tick), env), env.tick)}})

advanceIfNeeded(s, nowMs, env) == advanceLoop(s, nowMs, env, MaxLoop)

updateRemaining(s, nowMs) ==
  IF s.thrown THEN s
  ELSE IF ~Truthy(s.phaseEndAtMs) THEN s
  ELSE LET msLeft == Max(0, s.phaseEndAtMs - nowMs)
       IN render([s EXCEPT !.secondsLeft = Max(0, CeilSeconds(msLeft))])

requestFrame(s) ==
  IF s.thrown THEN s
  ELSE LET id == FreshId(s.rafPending)
       IN [s EXCEPT !.rafPending = @ \cup {id}, !.rafId = id]

frameLoop(s, env) ==
  IF ~s.running THEN s
  ELSE LET now == DateNow(s)
       IN requestFrame(updateRemaining(advanceIfNeeded(s, now, env), now))

\* a safety poll whose running test is inverted
pollBody_Inverted(s, env) ==
  IF s.running THEN s
  ELSE advanceIfNeeded(s, DateNow(s), env)

\* the body of the safety poll
pollBody(s, env) ==
  IF ~s.running THEN s
  ELSE advanceIfNeeded(s, DateNow(s), env)

\* ---- controls ----
\* a start() without the early return for a timer that is already running
start_NoGuard(s, env) ==
  LET s1 == [s EXCEPT !.running = TRUE]
      s2 == setButtons(startAudioKeepAlive(ensureAudio(s1, env)))
      s3 == startPhase(s2, "work", NoHint, env)
      s4 == IF s3.thrown THEN s3
            ELSE requestFrame(
                   [s3 EXCEPT !.rafPending = IF Truthy(s3.rafId)
                                             THEN @ \ {s3.rafId} ELSE @])
  IN IF s4.thrown THEN s4
     ELSE LET cleared == IF Truthy(s4.backgroundPollId)
                         THEN s4.pollTimers \ {s4.backgroundPollId}
                         ELSE s4.pollTimers
              id == FreshId(cleared)
          IN [s4 EXCEPT !.pollTimers = cleared \cup {id},
                        !.backgroundPollId = id]

start(s, env) ==
  IF s.running THEN s
  ELSE LET s1 == [s EXCEPT !.running = TRUE]
           s2 == setButtons(startAudioKeepAlive(ensureAudio(s1, env)))
           s3 == startPhase(s2, "work", NoHint, env)
           s4 == IF s3.thrown THEN s3
                 ELSE requestFrame(
                        [s3 EXCEPT !.rafPending = IF Truthy(s3.rafId)
                                                  THEN @ \ {s3.rafId} ELSE @])
       IN IF s4.thrown THEN s4
          ELSE LET cleared == IF Truthy(s4.backgroundPollId)
                              THEN s4.pollTimers \ {s4.backgroundPollId}
                              ELSE s4.pollTimers
                   id == FreshId(cleared)
               IN [s4 EXCEPT !.pollTimers = cleared \cup {id},
                             !.backgroundPollId = id]

\* stop() without the line secondsLeft = WORK_SEC
stop_NoSecondsReset(s) ==
  LET s1 == [s EXCEPT !.running = FALSE,
                      !.rafPending = IF Truthy(s.rafId) THEN @ \ {s.rafId} ELSE @,
                      !.rafId = NULL,
                      !.pollTimers = IF Truthy(s.backgroundPollId)
                                     THEN @ \ {s.backgroundPollId} ELSE @,
                      !.backgroundPollId = NULL]
      s2 == stopAudioKeepAlive(stopFlash(stopTone(s1)))
  IN render(setButtons([s2 EXCEPT !.phase = "ready", !.phaseEndAtMs = NULL]))

\* stop() without the line phaseEndAtMs = null
stop_KeepsEndTime(s) ==
  LET s1 == [s EXCEPT !.running = FALSE,
                      !.rafPending = IF Truthy(s.rafId) THEN @ \ {s.rafId} ELSE @,
                      !.rafId = NULL,
                      !.pollTimers = IF Truthy(s.backgroundPollId)
                                     THEN @ \ {s.backgroundPollId} ELSE @,
                      !.backgroundPollId = NULL]
      s2 == stopAudioKeepAlive(stopFlash(stopTone(s1)))
  IN render(setButtons([s2 EXCEPT !.phase = "ready", !.secondsLeft = WORK_SEC]))

\* stop() that cancels the callbacks and resets the display, but leaves the
\* engine armed: running and phaseEndAtMs are not reset
stop_DisplayOnly(s) ==
  LET s1 == [s EXCEPT !.rafPending = IF Truthy(s.rafId) THEN @ \ {s.rafId} ELSE @,
                      !.rafId = NULL,
                      !.pollTimers = IF Truthy(s.backgroundPollId)
                                     THEN @ \ {s.backgroundPollId} ELSE @,
                      !.backgroundPollId = NULL]
      s2 == stopAudioKeepAlive(stopFlash(stopTone(s1)))
  IN render(setButtons([s2 EXCEPT !.phase = "ready", !.secondsLeft = WORK_SEC]))

\* a stop() that forgets the handle of the safety poll without clearing it
stop_LeaksPoll(s) ==
  LET s1 == [s EXCEPT !.running = FALSE,
                      !.rafPending = IF Truthy(s.rafId) THEN @ \ {s.rafId} ELSE @,
                      !.rafId = NULL,
                      !.backgroundPollId = NULL]
      s2 == stopAudioKeepAlive(stopFlash(stopTone(s1)))
  IN render(setButtons([s2 EXCEPT !.phase = "ready",
                                  !.secondsLeft = WORK_SEC,
                                  !.phaseEndAtMs = NULL]))

stop(s) ==
  LET s1 == [s EXCEPT !.running = FALSE,
                      !.rafPending = IF Truthy(s.rafId) THEN @ \ {s.rafId} ELSE @,
                      !.rafId = NULL,
                      !.pollTimers = IF Truthy(s.backgroundPollId)
                                     THEN @ \ {s.backgroundPollId} ELSE @,
                      !.backgroundPollId = NULL]
      s2 == stopAudioKeepAlive(stopFlash(stopTone(s1)))
  IN render(setButtons([s2 EXCEPT !.phase = "ready",
                                  !.secondsLeft = WORK_SEC,
                                  !.phaseEndAtMs = NULL]))

\* a test beep that plays its tone by entering the Beep phase
testBeep_ViaStartPhase(s, env) ==
  LET s1 == startPhase(startAudioKeepAlive(ensureAudio(s, env)), "beep", NoHint, env)
  IN IF s1.thrown THEN s1
     ELSE [s1 EXCEPT !.flashTimers = @ \cup {DateNow(s1) + 200}]

testBeep(s, env) ==
  LET s1 == startFlash(playToneFor(startAudioKeepAlive(ensureAudio(s, env)), 1, env))
  IN IF s1.thrown THEN s1
     ELSE [s1 EXCEPT !.flashTimers = @ \cup {DateNow(s1) + 200}]

visibilityChange(s, env) ==
  IF ~s.running THEN s
  ELSE LET now == DateNow(s)
       IN updateRemaining(advanceIfNeeded(s, now, env), now)

\* ---- the state machine ----
\* the timeouts of `timers` that are not yet due at time t; the others are in
\* the task queue, ready to run
StillWaiting(timers, t) == {due \in timers : due > t}

\* the handler `name` has run and left the state s.  lastOp records the last
\* control or evaluation handler: its name, whether it was a stop() directly
\* after a stop(), whether stop() was called since the last start(), whether
\* the handler ended in an uncaught exception, and whether its catch-up loop
\* was cut off after MaxLoop iterations.
Set(s, name) ==
  /\ running' = s.running
  /\ phase' = s.phase
  /\ secondsLeft' = s.secondsLeft
  /\ nextAfterBeep' = s.nextAfterBeep
  /\ phaseEndAtMs' = s.phaseEndAtMs
  /\ rafId' = s.rafId
  /\ backgroundPollId' = s.backgroundPollId
  /\ audioCtx' = s.audioCtx
  /\ currentOsc' = s.currentOsc
  /\ keepAliveTimer' = s.keepAliveTimer
  /\ flashActive' = s.flashActive
  /\ clock' = s.clock
  /\ rafPending' = s.rafPending
  /\ pollTimers' = s.pollTimers
  /\ keepAliveTimers' = s.keepAliveTimers
  /\ flashTimers' = StillWaiting(s.flashTimers, s.clock)
  /\ flashReady' = s.flashReady
                     + Cardinality(s.flashTimers \ StillWaiting(s.flashTimers, s.clock))
  /\ sounding' = s.sounding
  /\ shownTime' = s.shownTime
  /\ shownPhase' = s.shownPhase
  /\ startBtnDisabled' = s.startBtnDisabled
  /\ stopBtnDisabled' = s.stopBtnDisabled
  /\ lastOp' = IF name \in {"keepAlive", "flashTimeout"} THEN lastOp
               ELSE [name |-> name,
                     repeat |-> (name = "stop" /\ lastOp.name = "stop"),
                     stopped |-> IF name = "stop" THEN TRUE
                                 ELSE IF name = "start" THEN FALSE
                                 ELSE lastOp.stopped,
                     threw |-> s.thrown, hung |-> s.hung]

\* the state after the script has loaded: the declarations, then render() and setButtons()
Init ==
  /\ running = FALSE
  /\ phase = "ready"
  /\ secondsLeft = WORK_SEC
  /\ nextAfterBeep = "rest"
  /\ phaseEndAtMs = NULL
  /\ rafId = NULL
  /\ backgroundPollId = NULL
  /\ audioCtx = "null"
  /\ currentOsc = NULL
  /\ keepAliveTimer = NULL
  /\ flashActive = FALSE
  /\ clock = T0
  /\ rafPending = {}
  /\ pollTimers = {}
  /\ keepAliveTimers = {}
  /\ flashTimers = {}
  /\ flashReady = 0
  /\ sounding = {}
  /\ shownTime = fmt(WORK_SEC)
  /\ shownPhase = "ready"
  /\ startBtnDisabled = FALSE
  /\ stopBtnDisabled = TRUE
  /\ lastOp = [name |-> "load", repeat |-> FALSE, stopped |-> FALSE,
               threw |-> FALSE, hung |-> FALSE]

\* click on Start
Start(env) == Set(start(Cur, env), "start")

\* click on Stop
Stop == Set(stop(Cur), "stop")

\* click on Test Beep
TestBeep(env) ==
  /\ Cardinality(flashTimers) + flashReady < MaxFlashTimers
  /\ Set(testBeep(Cur, env), "testBeep")

\* the browser runs a pending animation-frame callback
Frame(env) ==
  \E id \in rafPending :
    Set(frameLoop([Cur EXCEPT !.rafPending = @ \ {id}], env), "frame")

\* the 1 s safety poll fires
Poll(env) ==
  /\ pollTimers # {}
  /\ \E r \in {pollBody(Cur, env)} : Set(r, "poll")

\* the 2 s audio keep-alive interval fires
KeepAlive ==
  /\ keepAliveTimers # {}
  /\ Set(keepAliveBody(Cur), "keepAlive")

\* the browser suspends the audio context (the page is hidden, the device sleeps)
AudioSuspends ==
  /\ audioCtx = "running"
  /\ audioCtx' = "suspended"
  /\ UNCHANGED <<running, phase, secondsLeft, nextAfterBeep, phaseEndAtMs, rafId,
                 backgroundPollId, currentOsc, keepAliveTimer, flashActive,
                 browserVars, lastOp>>

\* the document's visibility changes
Visibility(env) == Set(visibilityChange(Cur, env), "visibility")

\* a stopFlash timeout of a test beep fires, at its due time or later
FlashTimeout ==
  /\ flashReady > 0
  /\ Set(stopFlash([Cur EXCEPT !.flashReady = @ - 1]), "flashTimeout")

\* an oscillator reaches its scheduled stop
ToneEnds ==
  \E t \in sounding :
    /\ sounding' = sounding \ {t}
    /\ UNCHANGED <<progVars, clock, rafPending, pollTimers, keepAliveTimers,
                   flashTimers, flashReady, shownTime, shownPhase, startBtnDisabled,
                   stopBtnDisabled, lastOp>>

\* the instants the clock can move to while no handler runs
NextTimes ==
  {clock + CatchUpGap}
    \cup (IF phaseEndAtMs # NULL THEN {phaseEndAtMs + o : o \in Offsets} ELSE {})

\* time passes while no handler runs; the timeouts that come due move to the
\* task queue
PassTime ==
  \E t \in NextTimes :
    /\ t > clock
    /\ t <= MaxClock
    /\ clock' = t
    /\ flashTimers' = StillWaiting(flashTimers, t)
    /\ flashReady' = flashReady + Cardinality(flashTimers \ StillWaiting(flashTimers, t))
    /\ UNCHANGED <<progVars, rafPending, pollTimers, keepAliveTimers,
                   sounding, shownTime, shownPhase, startBtnDisabled,
                   stopBtnDisabled, lastOp>>

StartStep == \E env \in ClickEnvs : Start(env)
TestBeepStep == \E env \in ClickEnvs : TestBeep(env)
FrameStep == \E env \in Envs : Frame(env)
PollStep == \E env \in Envs : Poll(env)
VisibilityStep == \E env \in Envs : Visibility(env)

Next ==
  \/ StartStep
  \/ Stop
  \/ TestBeepStep
  \/ FrameStep
  \/ PollStep
  \/ KeepAlive
  \/ AudioSuspends
  \/ VisibilityStep
  \/ FlashTimeout
  \/ ToneEnds
  \/ PassTime

Spec == Init /\ [][Next]_vars

TypeOK ==
  /\ running \in BOOLEAN
  /\ phase \in {"ready", "work", "rest", "beep"}
  /\ secondsLeft \in Nat
  /\ nextAfterBeep \in {"work", "rest"}
  /\ phaseEndAtMs \in Int
  /\ audioCtx \in {"null", "suspended", "running"}
  /\ flashActive \in BOOLEAN
  /\ clock \in T0..(MaxClock + 2 * MaxLoop)

\* ---- properties ----

\* C1: the timer is started in Work at T and nothing is evaluated until one
\* frame or visibility evaluation with now = T + 1,200,000 + 3,000 + 20,000 +
\* 1,500; that evaluation returns with phase Beep for the second time,
\* nextAfterBeep = Work and secondsLeft = 2.
C1_CatchUpReplaysAll ==
  [][(/\ lastOp.name = "start" /\ ~lastOp.threw
      /\ running /\ phase = "work"
      /\ clock = (phaseEndAtMs - (WORK_SEC * 1000)) + CatchUpGap
      /\ lastOp'.name \in {"frame", "visibility"} /\ ~lastOp'.threw
      /\ (FrameStep \/ VisibilityStep))
     => (phase' = "beep" /\ nextAfterBeep' = "work" /\ secondsLeft' = 2)]_vars

\* C2: a start() that takes the timer from not running to running leaves
\* phase = Work, secondsLeft = 1200 and phaseEndAtMs = clock at start + 1,200,000.
C2_StartBeginsWork ==
  [][(~running /\ running')
     => (/\ phase' = "work"
         /\ secondsLeft' = 1200
         /\ phaseEndAtMs' = clock + 1200000)]_vars

\* the transition table of C3: what one transition makes of (phase, nextAfterBeep)
TableNext(p, n) ==
  IF p = "work" THEN [phase |-> "beep", nextAfterBeep |-> "rest", secondsLeft |-> 3]
  ELSE IF p = "rest" THEN [phase |-> "beep", nextAfterBeep |-> "work", secondsLeft |-> 3]
  ELSE IF n = "rest" THEN [phase |-> "rest", nextAfterBeep |-> n, secondsLeft |-> 20]
  ELSE [phase |-> "work", nextAfterBeep |-> n, secondsLeft |-> 1200]

\* C3: while running in Work, Rest or Beep, an advance call (the safety poll)
\* with now = phaseEndAtMs exactly performs exactly the one transition of the table.
C3_BoundaryTransition ==
  [][(/\ running /\ phase \in {"work", "rest", "beep"}
      /\ phaseEndAtMs # NULL /\ clock = phaseEndAtMs
      /\ lastOp'.name = "poll"
      /\ PollStep)
     => (/\ phase' = TableNext(phase, nextAfterBeep).phase
         /\ nextAfterBeep' = TableNext(phase, nextAfterBeep).nextAfterBeep
         /\ secondsLeft' = TableNext(phase, nextAfterBeep).secondsLeft)]_vars

\* C4: from every reachable state stop() followed by stop() leaves the state
\* that one stop() leaves: not running, Ready, secondsLeft = 1200, phaseEndAtMs
\* null, no frame callback, no safety poll, no current tone; and no stop() throws.
C4_StopIdempotent ==
  LET once == stop(Cur)
      twice == stop(once)
  IN /\ ~once.thrown /\ ~twice.thrown
     /\ twice = once
     /\ once.running = FALSE
     /\ once.phase = "ready"
     /\ once.secondsLeft = 1200
     /\ once.phaseEndAtMs = NULL
     /\ once.rafId = NULL /\ once.rafPending = {}
     /\ once.backgroundPollId = NULL /\ once.pollTimers = {}
     /\ once.currentOsc = NULL
     /\ (lastOp.name = "stop"
           => /\ ~lastOp.threw
              /\ ~running /\ phase = "ready" /\ secondsLeft = 1200
              /\ phaseEndAtMs = NULL
              /\ rafId = NULL /\ rafPending = {}
              /\ backgroundPollId = NULL /\ pollTimers = {}
              /\ currentOsc = NULL)

\* stop() was called directly after a stop() that ended a running cycle
C4_Witness ==
  /\ lastOp.name = "stop" /\ lastOp.repeat
  /\ audioCtx # "null" /\ clock > T0

\* C5: a click on Test Beep leaves phase, secondsLeft, phaseEndAtMs,
\* nextAfterBeep and running unchanged.
C5_TestBeepFrame ==
  [][(lastOp'.name = "testBeep" /\ TestBeepStep)
     => UNCHANGED <<phase, secondsLeft, phaseEndAtMs, nextAfterBeep, running>>]_vars

\* Test Beep was clicked while the timer was running in Rest
C5_Witness ==
  /\ lastOp.name = "testBeep" /\ ~lastOp.threw
  /\ running /\ phase = "rest" /\ currentOsc # NULL

\* C6: after stop() and until the next start(), no step changes phase,
\* phaseEndAtMs, secondsLeft or nextAfterBeep, and phase stays Ready.
C6_NoTransitionAfterStop ==
  [][(lastOp.stopped /\ lastOp'.stopped)
     => (/\ UNCHANGED <<phase, phaseEndAtMs, secondsLeft, nextAfterBeep>>
         /\ phase' = "ready")]_vars

\* a visibilitychange event arrived after stop(), later than the end of the
\* Work phase that the stop() cut short
C6_Witness ==
  /\ lastOp.stopped /\ lastOp.name = "visibility"
  /\ clock >= T0 + (WORK_SEC * 1000)

\* C7: a failing audio call is swallowed inside the Alert Emitter: no handler
\* ends in an exception, start() ends in running Work with phaseEndAtMs set and
\* both driver callbacks scheduled, and an entry into Beep sets phaseEndAtMs
\* and secondsLeft for the Beep phase.
C7_AudioFailureSwallowed ==
  [][/\ ~lastOp'.threw
     /\ (~running /\ running')
          => (/\ phase' = "work" /\ phaseEndAtMs' # NULL
              /\ rafId' \in rafPending' /\ backgroundPollId' \in pollTimers')
     /\ (phase # "beep" /\ phase' = "beep")
          => (/\ phaseEndAtMs' >= clock + (BEEP_SEC * 1000)
              /\ secondsLeft' >= BEEP_SEC
              /\ rafId' \in rafPending')]_vars

\* ceil(x / 1000) for any integer x
CeilDiv1000(x) == 0 - ((0 - x) \div 1000)

\* the remaining seconds C8 states
ClaimedRemaining(endMs, nowMs) == Max(0, CeilDiv1000(endMs - nowMs))

\* distances of the sampled now from phaseEndAtMs
RemainingSamples == {0 - 2500, 0 - 1001, 0 - 1000, 0 - 999, 0 - 1, 0, 1, 1000, 2500}

\* C8: the remaining-time evaluation yields max(0, ceil((phaseEndAtMs - now) /
\* 1000)): 0 at now = phaseEndAtMs and later, 1 at phaseEndAtMs - 1000 and at
\* phaseEndAtMs - 1; it changes nothing when phaseEndAtMs is null.
C8_Remaining ==
  /\ [](/\ phaseEndAtMs # NULL
          => /\ \A d \in RemainingSamples :
                  updateRemaining(Cur, phaseEndAtMs + d).secondsLeft
                    = ClaimedRemaining(phaseEndAtMs, phaseEndAtMs + d)
             /\ updateRemaining(Cur, phaseEndAtMs).secondsLeft = 0
             /\ updateRemaining(Cur, phaseEndAtMs + 2500).secondsLeft = 0
             /\ updateRemaining(Cur, phaseEndAtMs - 1000).secondsLeft = 1
             /\ updateRemaining(Cur, phaseEndAtMs - 1).secondsLeft = 1
        /\ phaseEndAtMs = NULL => updateRemaining(Cur, clock) = Cur)
  /\ [][(/\ lastOp'.name \in {"frame", "visibility"} /\ ~lastOp'.threw
          /\ running /\ phaseEndAtMs' # NULL
          /\ (FrameStep \/ VisibilityStep))
        => secondsLeft' = ClaimedRemaining(phaseEndAtMs', clock)]_vars

\* a frame was evaluated in Beep one second or less before the end of the phase
C8_Witness ==
  /\ lastOp.name = "frame" /\ ~lastOp.threw
  /\ running /\ phase = "beep" /\ secondsLeft = 1
  /\ clock < phaseEndAtMs

\* C9: Ready implies phaseEndAtMs = null, and phaseEndAtMs is non-null only
\* while the timer is running in Work, Rest or Beep.
C9_ReadyHasNoEndTime ==
  /\ phase = "ready" => phaseEndAtMs = NULL
  /\ ~running => phaseEndAtMs = NULL
  /\ phaseEndAtMs # NULL => (running /\ phase \in {"work", "rest", "beep"})

\* the timer was stopped while it was running in Rest
C9_Witness ==
  /\ lastOp.name = "stop" /\ ~lastOp.repeat
  /\ phase = "ready" /\ ~running
  /\ clock >= T0 + ((WORK_SEC + BEEP_SEC) * 1000)
  /\ nextAfterBeep = "rest"

\* C10: whenever a phase is entered, phaseEndAtMs is set to the clock value
\* read at that moment plus that phase's nominal duration.
C10_EndTimeIsNowPlusDuration ==
  [][(phase' # phase /\ phase' # "ready")
     => \E t \in clock..clock' :
          phaseEndAtMs' = t + (durationSecondsFor(phase') * 1000)]_vars


\* the number of times one call of advanceIfNeeded runs the body of its loop
RECURSIVE advanceCount(_, _, _, _)
advanceCount(s, nowMs, env, fuel) ==
  IF s.thrown THEN 0
  ELSE IF ~(s.running /\ Truthy(s.phaseEndAtMs) /\ nowMs >= s.phaseEndAtMs) THEN 0
  ELSE IF fuel = 0 THEN 0
  ELSE LET s1 == transition(Elapse(s, env.tick), env)
           s2 == Elapse(s1, env.tick)
       IN 1 + advanceCount(s2, DateNow(s2), env, fuel - 1)

\* C11: every call of the advance loop with an overdue end time terminates;
\* it performs at least one and at most (now - old phaseEndAtMs) / 3000 + 1
\* transitions, each
\* of them moves phaseEndAtMs at least 3,000 ms past the previous end time,
\* and on return phaseEndAtMs is strictly greater than the time of the last
\* loop test.
C11_AdvanceTerminates ==
  (running /\ Truthy(phaseEndAtMs) /\ clock >= phaseEndAtMs)
    => \A env \in Envs :
         LET r == advanceIfNeeded(Cur, clock, env)
             n == advanceCount(Cur, clock, env, MaxLoop)
         IN /\ ~r.hung
            /\ n >= 1
            /\ n <= ((clock - phaseEndAtMs) \div (BEEP_SEC * 1000)) + 1
            /\ r.phaseEndAtMs >= phaseEndAtMs + (n * BEEP_SEC * 1000)
            /\ r.phaseEndAtMs > r.clock

\* C12: at most one tone is in flight, and it is the one currentOsc names (a
\* new tone is started only after the previous one is stopped); stopTone
\* never throws, also when nothing plays or the tone has ended by itself, and
\* leaves no tone sounding.
C12_OneToneInFlight ==
  /\ Cardinality(sounding) <= 1
  /\ \A t \in sounding : t.id = currentOsc
  /\ LET r == stopTone(Cur)
     IN ~r.thrown /\ r.currentOsc = NULL /\ r.sounding = {}

\* a test beep clicked during the Beep phase: its 1-second tone is the only one
C12_Witness ==
  /\ lastOp.name = "testBeep" /\ ~lastOp.threw
  /\ running /\ phase = "beep"
  /\ \E t \in sounding : t.seconds = 1 /\ t.id = currentOsc

\* C13: immediately after stop() returns no frame callback and no safety poll
\* is registered (rafId = null, backgroundPollId = null), the keep-alive
\* interval is cleared, no tone is current and the flash is inactive.
C13_StopReleasesEverything ==
  [][(lastOp'.name = "stop" /\ Stop)
     => (/\ rafId' = NULL /\ rafPending' = {}
         /\ backgroundPollId' = NULL /\ pollTimers' = {}
         /\ keepAliveTimer' = NULL /\ keepAliveTimers' = {}
         /\ currentOsc' = NULL /\ sounding' = {}
         /\ flashActive' = FALSE)]_vars

\* stop() clicked after a full Work and Rest, in or after the second Beep
C13_Witness ==
  /\ lastOp.name = "stop" /\ ~lastOp.repeat
  /\ nextAfterBeep = "work"
  /\ rafPending = {} /\ pollTimers = {} /\ keepAliveTimers = {}
  /\ sounding = {} /\ ~flashActive

\* C14: the phases follow the order Work, Beep, Rest, Beep, Work, ...: Beep is
\* entered only from Work or Rest and remembers the opposite phase as the one
\* to follow, that memory does not change during the Beep, Rest is entered only
\* from a Beep that followed Work, Work only from a Beep that followed Rest or
\* from Ready by start(), and Ready is entered only by stop().
C14_PhaseOrder ==
  [][/\ (phase # "beep" /\ phase' = "beep")
          => /\ phase \in {"work", "rest"}
             /\ nextAfterBeep' = (IF phase = "work" THEN "rest" ELSE "work")
     /\ (phase = "beep" /\ phase' = "beep") => nextAfterBeep' = nextAfterBeep
     /\ (phase # "rest" /\ phase' = "rest")
          => (phase = "beep" /\ nextAfterBeep = "rest")
     /\ (phase # "work" /\ phase' = "work")
          => \/ (phase = "beep" /\ nextAfterBeep = "work")
             \/ (phase = "ready" /\ lastOp'.name = "start")
     /\ (phase # "ready" /\ phase' = "ready") => lastOp'.name = "stop"]_vars

\* the second Beep of a run, the one entered from Rest
C14_Witness ==
  /\ running /\ phase = "beep" /\ nextAfterBeep = "work"
  /\ lastOp.name \in {"frame", "poll", "visibility"}

\* C16: after every handler that returned normally, 0 <= secondsLeft <= the
\* nominal duration of the current phase (1200 in Work and Ready, 20 in Rest,
\* 3 in Beep), also right after a frame or visibility evaluation.
C16_SecondsLeftInRange ==
  ~lastOp.threw => (secondsLeft >= 0 /\ secondsLeft <= durationSecondsFor(phase))

\* C17: while the timer is running in phase Beep with the flash active, no
\* step that leaves it running in Beep switches the flash off: neither a Test
\* Beep click nor the delayed stopFlash of a test beep ends the flash of an
\* ongoing Beep phase (handlers that returned normally).
C17_FlashThroughoutBeep ==
  [][(/\ running /\ phase = "beep" /\ flashActive
      /\ ~lastOp.threw /\ ~lastOp'.threw
      /\ running' /\ phase' = "beep")
     => flashActive']_vars

\* C18: in every reachable state running is true exactly when phase is one of
\* Work, Rest, Beep (and false exactly when phase is Ready).
C18_RunningIffTimedPhase ==
  running <=> (phase \in {"work", "rest", "beep"})

\* C20: at most one frame callback is pending and at most one safety poll is
\* registered; while running there is exactly one of each, and they are the
\* ones rafId and backgroundPollId name; while not running there is none.
C20_OneDriverLoop ==
  /\ Cardinality(rafPending) <= 1
  /\ Cardinality(pollTimers) <= 1
  /\ running => (rafPending = {rafId} /\ pollTimers = {backgroundPollId})
  /\ ~running => (rafPending = {} /\ pollTimers = {})

\* C19: start() on a timer that is already running changes nothing: phase,
\* phaseEndAtMs, secondsLeft, nextAfterBeep, the pending frame callback, the
\* safety poll, the tone and everything else stay as they were.
C19_StartWhileRunning ==
  [][(running /\ lastOp'.name = "start" /\ StartStep)
     => UNCHANGED <<progVars, browserVars>>]_vars

\* start() was called during Rest, which only a running timer can be in
C19_Witness ==
  /\ lastOp.name = "start" /\ ~lastOp.threw
  /\ running /\ phase = "rest" /\ secondsLeft < REST_SEC

\* ---- a timer that is never stopped, over unbounded time ----
\* The code uses the clock only in comparisons with and differences from
\* phaseEndAtMs and the timeouts' due times, so moving the origin of time
\* changes nothing it can observe.  LivePassTime lets time pass like PassTime
\* and then moves the origin so that the clock reads LiveOrigin again, which
\* keeps the time stamps of an endless run in a finite range.  An evaluation
\* is late by CatchUpGap at most.
LiveOrigin == T0 + CatchUpGap

LivePassTime ==
  \E t \in NextTimes :
    /\ t > clock
    /\ Truthy(phaseEndAtMs) => t <= phaseEndAtMs + CatchUpGap
    /\ LET d == t - LiveOrigin
       IN /\ clock' = LiveOrigin
          /\ phaseEndAtMs' = IF phaseEndAtMs = NULL THEN NULL ELSE phaseEndAtMs - d
          /\ flashTimers' = {due - d : due \in StillWaiting(flashTimers, t)}
    /\ flashReady' = flashReady + Cardinality(flashTimers \ StillWaiting(flashTimers, t))
    /\ UNCHANGED <<running, phase, secondsLeft, nextAfterBeep, rafId,
                   backgroundPollId, audioCtx, currentOsc, keepAliveTimer,
                   flashActive, rafPending, pollTimers, keepAliveTimers,
                   sounding, shownTime, shownPhase, startBtnDisabled,
                   stopBtnDisabled, lastOp>>

\* the events that drive the phase engine, but the click on Stop
LiveNext ==
  \/ StartStep
  \/ FrameStep
  \/ PollStep
  \/ VisibilityStep
  \/ LivePassTime

\* the clock keeps advancing and a registered setInterval keeps firing; frame
\* callbacks and visibility events may stay away for ever
LiveSpec ==
  Init /\ [][LiveNext]_vars /\ WF_vars(LivePassTime) /\ WF_vars(PollStep)

\* C15: when the timer was started and is never stopped, the clock keeps
\* advancing and the safety poll keeps firing, then each of Work, Beep and
\* Rest is entered again and again and every phase ends, with or without frame
\* callbacks and visibility events; Ready is not re-entered.
C15_CycleForEver ==
  /\ \A p \in {"work", "beep", "rest"} : (pollTimers # {}) ~> (phase = p)
  /\ [][phase # "ready" => phase' # "ready"]_vars

\* a never-stopped timer in its second Work phase, brought there by the poll
C15_Witness ==
  /\ pollTimers # {} /\ running
  /\ clock >= LiveOrigin
  /\ phase = "work" /\ nextAfterBeep = "work" /\ lastOp.name = "poll"

====
